---- MODULE Spec2Model ----
(***************************************************************************)
(* A model of deflacue: the Cue Sheet parser (deflacue/cue.py, CueParser)  *)
(* and the batch run that extracts tracks (deflacue/deflacue.py,           *)
(* Deflacue.do and Deflacue._process_cue), with the command line entry of  *)
(* deflacue/script.py.                                                     *)
(*                                                                         *)
(* Text is modelled as Python handles it: a str is a sequence of           *)
(* one-character strings, and strip, split, rsplit, lower, upper and int   *)
(* are computed character by character.  A context (a Python dict) is a    *)
(* function from keys (strs) to values; a value is None, a str or an int.  *)
(*                                                                         *)
(* SpecParser runs CueParser.__init__ one line at a time over a sheet      *)
(* whose lines are drawn from SheetLines.  Spec runs Deflacue.do over a    *)
(* small file system.                                                      *)
(***************************************************************************)
EXTENDS Integers, Sequences, FiniteSets, TLC

(***************************************************************************)
(* Bounds of the model.                                                    *)
(***************************************************************************)
\* the longest sheet SpecParser reads, in lines
MaxLines == 4

\* the most lines of a sheet that CueParser is called on by itself
MaxSheetLen == 5

\* the greatest minutes, seconds and frames of the timestamps that
\* _timestr_to_samples is called on by itself
MaxMinutes == 2

MaxSeconds == 59

MaxFrames == 74

(***************************************************************************)
(* Python str operations.                                                  *)
(***************************************************************************)
UpperLetters ==
    <<"A","B","C","D","E","F","G","H","I","J","K","L","M",
      "N","O","P","Q","R","S","T","U","V","W","X","Y","Z">>

LowerLetters ==
    <<"a","b","c","d","e","f","g","h","i","j","k","l","m",
      "n","o","p","q","r","s","t","u","v","w","x","y","z">>

Digits == <<"0","1","2","3","4","5","6","7","8","9">>

\* the characters str.strip() and str.split() take for whitespace
Whitespace == {" ", "\t", "\n", "\r"}

LowerChar(c) ==
    IF \E i \in 1..26 : UpperLetters[i] = c
    THEN LowerLetters[CHOOSE i \in 1..26 : UpperLetters[i] = c]
    ELSE c

UpperChar(c) ==
    IF \E i \in 1..26 : LowerLetters[i] = c
    THEN UpperLetters[CHOOSE i \in 1..26 : LowerLetters[i] = c]
    ELSE c

\* str.lower()
lower(s) == [i \in 1..Len(s) |-> LowerChar(s[i])]

\* str.upper()
upper(s) == [i \in 1..Len(s) |-> UpperChar(s[i])]

RECURSIVE lstrip(_, _)
lstrip(s, chars) ==
    IF s # <<>> /\ Head(s) \in chars THEN lstrip(Tail(s), chars) ELSE s

RECURSIVE rstrip(_, _)
rstrip(s, chars) ==
    IF s # <<>> /\ s[Len(s)] \in chars
    THEN rstrip(SubSeq(s, 1, Len(s) - 1), chars)
    ELSE s

\* str.strip(chars); str.strip() is strip(s, Whitespace)
strip(s, chars) == rstrip(lstrip(s, chars), chars)

\* str.startswith(prefix)
startswith(s, prefix) ==
    Len(s) >= Len(prefix) /\ SubSeq(s, 1, Len(prefix)) = prefix

\* str.endswith(suffix)
endswith(s, suffix) ==
    Len(s) >= Len(suffix)
    /\ SubSeq(s, Len(s) - Len(suffix) + 1, Len(s)) = suffix

\* the positions of character c in s
Positions(s, c) == {i \in 1..Len(s) : s[i] = c}

Min(S) == CHOOSE x \in S : \A y \in S : x <= y

Max(S) == CHOOSE x \in S : \A y \in S : x >= y

\* str.split(c, 1): at most one split, at the first c
split1(s, c) ==
    IF Positions(s, c) = {}
    THEN <<s>>
    ELSE LET i == Min(Positions(s, c))
         IN  <<SubSeq(s, 1, i - 1), SubSeq(s, i + 1, Len(s))>>

\* str.rsplit(c, 1): at most one split, at the last c
rsplit1(s, c) ==
    IF Positions(s, c) = {}
    THEN <<s>>
    ELSE LET i == Max(Positions(s, c))
         IN  <<SubSeq(s, 1, i - 1), SubSeq(s, i + 1, Len(s))>>

\* str.split(c): a split at every c, empty pieces kept
RECURSIVE splitAll(_, _)
splitAll(s, c) ==
    IF Positions(s, c) = {}
    THEN <<s>>
    ELSE LET i == Min(Positions(s, c))
         IN  <<SubSeq(s, 1, i - 1)>> \o splitAll(SubSeq(s, i + 1, Len(s)), c)

\* str.split(): runs of whitespace separate the pieces, no empty piece
RECURSIVE split(_)
split(s) ==
    LET t == lstrip(s, Whitespace)
        stops == {i \in 1..Len(t) : t[i] \in Whitespace}
    IN  IF t = <<>> THEN <<>>
        ELSE IF stops = {} THEN <<t>>
        ELSE LET i == Min(stops)
             IN  <<SubSeq(t, 1, i - 1)>> \o split(SubSeq(t, i + 1, Len(t)))

\* str.replace(c, ''): every c removed
RECURSIVE remove_char(_, _)
remove_char(s, c) ==
    IF s = <<>> THEN <<>>
    ELSE IF Head(s) = c THEN remove_char(Tail(s), c)
    ELSE <<Head(s)>> \o remove_char(Tail(s), c)

IsDigit(c) == \E i \in 1..10 : Digits[i] = c

DigitValue(c) == (CHOOSE i \in 1..10 : Digits[i] = c) - 1

RECURSIVE DigitsValue(_)
DigitsValue(s) ==
    IF s = <<>> THEN 0
    ELSE 10 * DigitsValue(SubSeq(s, 1, Len(s) - 1)) + DigitValue(s[Len(s)])

\* the digits of int(s) once whitespace and a sign are taken off
IntBody(s) ==
    LET t == strip(s, Whitespace)
    IN  IF t # <<>> /\ Head(t) \in {"+", "-"} THEN Tail(t) ELSE t

\* whether int(s) returns (it raises ValueError otherwise)
int_ok(s) == IntBody(s) # <<>> /\ \A i \in 1..Len(IntBody(s)) : IsDigit(IntBody(s)[i])

\* int(s), for a str of int_ok
int(s) ==
    LET t == strip(s, Whitespace)
    IN  IF Head(t) = "-" THEN 0 - DigitsValue(IntBody(s)) ELSE DigitsValue(IntBody(s))

RECURSIVE pow(_, _)
pow(b, e) == IF e = 0 THEN 1 ELSE b * pow(b, e - 1)

RECURSIVE reverse(_)
reverse(s) == IF s = <<>> THEN <<>> ELSE reverse(Tail(s)) \o <<Head(s)>>

(***************************************************************************)
(* Python values and dicts.                                                *)
(***************************************************************************)
PyNone == [t |-> "None", s |-> <<>>, n |-> 0]

PyStr(s) == [t |-> "str", s |-> s, n |-> 0]

PyInt(n) == [t |-> "int", s |-> <<>>, n |-> n]

\* key in d
has_key(d, key) == key \in DOMAIN d

\* d[key] = value
set_item(d, key, value) ==
    [k \in (DOMAIN d) \cup {key} |-> IF k = key THEN value ELSE d[k]]

(***************************************************************************)
(* The keys of a context and the names of the command methods.             *)
(***************************************************************************)
K_PERFORMER == <<"P","E","R","F","O","R","M","E","R">>

K_SONGWRITER == <<"S","O","N","G","W","R","I","T","E","R">>

K_ALBUM == <<"A","L","B","U","M">>

K_GENRE == <<"G","E","N","R","E">>

K_DATE == <<"D","A","T","E">>

K_FILE == <<"F","I","L","E">>

K_COMMENT == <<"C","O","M","M","E","N","T">>

K_TITLE == <<"T","I","T","L","E">>

K_INDEX == <<"I","N","D","E","X">>

K_TRACK_NUM == <<"T","R","A","C","K","_","N","U","M">>

K_POS_START_SAMPLES == <<"P","O","S","_","S","T","A","R","T","_","S","A","M","P","L","E","S">>

K_POS_END_SAMPLES == <<"P","O","S","_","E","N","D","_","S","A","M","P","L","E","S">>

Unknown == <<"U","n","k","n","o","w","n">>

M_rem == <<"r","e","m">>

M_performer == <<"p","e","r","f","o","r","m","e","r">>

M_title == <<"t","i","t","l","e">>

M_file == <<"f","i","l","e">>

M_index == <<"i","n","d","e","x">>

M_track == <<"t","r","a","c","k">>

M_flags == <<"f","l","a","g","s">>

(***************************************************************************)
(* CueParser.  The parser p is the record of the object's fields:          *)
(*   context_global    the global context                                  *)
(*   context_tracks    the track contexts, in the order of declaration     *)
(*   current_context   which dict _current_context refers to: 0 is the     *)
(*                     global context, i > 0 is context_tracks[i]          *)
(*   error             the exception a line raised, "" when none           *)
(***************************************************************************)
DEFAULT_SAMPLE_RATE == 44100

\* _unquote
unquote(in_str) == strip(in_str, {" ", "\""})

\* the chunks _timestr_to_sec adds up: all but the last, the last one first
sec_chunks(timestr) ==
    LET chunks == splitAll(timestr, ":")
    IN  reverse(SubSeq(chunks, 1, Len(chunks) - 1))

RECURSIVE sec_sum(_, _)
sec_sum(splitted, i) ==
    IF i > Len(splitted) THEN 0
    ELSE LET factor == IF i - 1 = 0 THEN 1 ELSE pow(60, i - 1)
         IN  int(splitted[i]) * factor + sec_sum(splitted, i + 1)

\* _timestr_to_sec, for a timestr whose chunks int() takes
timestr_to_sec(timestr) == sec_sum(sec_chunks(timestr), 1)

\* whether _timestr_to_samples returns (int() raises ValueError otherwise)
timestr_ok(timestr) ==
    LET chunks == splitAll(timestr, ":")
    IN  \A i \in 1..Len(chunks) : int_ok(chunks[i])

\* _timestr_to_samples were it to leave the frames out
timestr_to_samples_whole_seconds(timestr) ==
    timestr_to_sec(timestr) * DEFAULT_SAMPLE_RATE

\* _timestr_to_samples, for a timestr of timestr_ok
timestr_to_samples(timestr) ==
    LET frames_factor == DEFAULT_SAMPLE_RATE \div 75
        full_seconds == timestr_to_sec(timestr)
        chunks == splitAll(timestr, ":")
        frames == int(chunks[Len(chunks)])
    IN  full_seconds * DEFAULT_SAMPLE_RATE + frames * frames_factor

\* the fields as __init__ sets them, before the file is read
new_context_global ==
    (K_PERFORMER :> PyStr(Unknown))
    @@ (K_SONGWRITER :> PyNone)
    @@ (K_ALBUM :> PyStr(Unknown))
    @@ (K_GENRE :> PyStr(Unknown))
    @@ (K_DATE :> PyNone)
    @@ (K_FILE :> PyNone)
    @@ (K_COMMENT :> PyNone)

new_parser ==
    [context_global |-> new_context_global,
     context_tracks |-> <<>>,
     current_context |-> 0,
     error |-> ""]

\* the dict self._current_context refers to
current_context_of(p) ==
    IF p.current_context = 0
    THEN p.context_global
    ELSE p.context_tracks[p.current_context]

\* write_current as it would be were a track context the global dict itself
\* and not a copy of it: the write shows in every context
write_current_aliased(p, key, value) ==
    [p EXCEPT !.context_global = set_item(@, key, value),
              !.context_tracks =
                  [i \in 1..Len(p.context_tracks) |->
                      set_item(p.context_tracks[i], key, value)]]

\* self._current_context[key] = value
write_current(p, key, value) ==
    IF p.current_context = 0
    THEN [p EXCEPT !.context_global = set_item(@, key, value)]
    ELSE [p EXCEPT !.context_tracks[p.current_context] = set_item(@, key, value)]

\* an exception leaves the method
raise(p, exception) == [p EXCEPT !.error = exception]

\* _in_global_context: the dicts are compared by value
in_global_context(p) == current_context_of(p) = p.context_global

cmd_rem(p, args) ==
    LET parts == split1(args, " ")
    IN  IF Len(parts) # 2 THEN raise(p, "ValueError")
        ELSE LET subcommand == parts[1]
                 subargs == IF startswith(parts[2], <<"\"">>)
                            THEN unquote(parts[2])
                            ELSE parts[2]
             IN  write_current(p, upper(subcommand), PyStr(subargs))

cmd_performer(p, args) == write_current(p, K_PERFORMER, PyStr(unquote(args)))

cmd_title(p, args) ==
    IF in_global_context(p)
    THEN write_current(p, K_ALBUM, PyStr(unquote(args)))
    ELSE write_current(p, K_TITLE, PyStr(unquote(args)))

cmd_file(p, args) ==
    write_current(p, K_FILE, PyStr(unquote(rsplit1(args, " ")[1])))

\* cmd_index were it to keep the first INDEX of a context and pass over the
\* later ones
cmd_index_first_wins(p, args) ==
    IF Len(split(args)) < 2 THEN raise(p, "IndexError")
    ELSE LET timestr == split(args)[2]
             q == write_current(p, K_INDEX, PyStr(timestr))
         IN  IF ~timestr_ok(timestr) THEN raise(q, "ValueError")
             ELSE IF has_key(current_context_of(p), K_INDEX) THEN p
             ELSE write_current(q, K_POS_START_SAMPLES,
                                PyInt(timestr_to_samples(timestr)))

cmd_index(p, args) ==
    IF Len(split(args)) < 2 THEN raise(p, "IndexError")
    ELSE LET timestr == split(args)[2]
             q == write_current(p, K_INDEX, PyStr(timestr))
         IN  IF ~timestr_ok(timestr) THEN raise(q, "ValueError")
             ELSE write_current(q, K_POS_START_SAMPLES,
                                PyInt(timestr_to_samples(timestr)))

\* the new track context were it a copy of the current context, which is
\* the track before it once there is one
deepcopy_current(p) == current_context_of(p)

\* deepcopy(self._context_global)
deepcopy_global(p) == p.context_global

\* cmd_track without `self._current_context = new_track_context`
cmd_track_no_switch(p, args) ==
    IF Len(split(args)) # 2 THEN raise(p, "ValueError")
    ELSE LET num == split(args)[1]
             q == [p EXCEPT !.context_tracks = Append(@, deepcopy_global(p))]
         IN  IF ~int_ok(num) THEN raise(q, "ValueError")
             ELSE write_current(q, K_TRACK_NUM, PyInt(int(num)))

cmd_track(p, args) ==
    IF Len(split(args)) # 2 THEN raise(p, "ValueError")
    ELSE LET num == split(args)[1]
             q == [p EXCEPT !.context_tracks = Append(@, deepcopy_global(p)),
                            !.current_context = Len(p.context_tracks) + 1]
         IN  IF ~int_ok(num) THEN raise(q, "ValueError")
             ELSE write_current(q, K_TRACK_NUM, PyInt(int(num)))

cmd_flags(p, args) == p

\* the names n for which the parser has a method cmd_<n>
cmd_methods == {M_rem, M_performer, M_title, M_file, M_index, M_track, M_flags}

\* method(args), for the method getattr finds
call_method(p, name, args) ==
    CASE name = M_rem -> cmd_rem(p, args)
      [] name = M_performer -> cmd_performer(p, args)
      [] name = M_title -> cmd_title(p, args)
      [] name = M_file -> cmd_file(p, args)
      [] name = M_index -> cmd_index(p, args)
      [] name = M_track -> cmd_track(p, args)
      [] name = M_flags -> cmd_flags(p, args)

\* process_line with getattr given no default: an unknown command raises
process_line_no_default(p, raw) ==
    LET line == strip(raw, Whitespace)
    IN  IF line = <<>> THEN p
        ELSE LET parts == split1(line, " ")
             IN  IF Len(parts) # 2 THEN raise(p, "ValueError")
                 ELSE IF lower(parts[1]) \in cmd_methods
                      THEN call_method(p, lower(parts[1]), parts[2])
                      ELSE raise(p, "AttributeError")

\* one turn of the loop over the lines
process_line(p, raw) ==
    LET line == strip(raw, Whitespace)
    IN  IF line = <<>> THEN p
        ELSE LET parts == split1(line, " ")
             IN  IF Len(parts) # 2 THEN raise(p, "ValueError")
                 ELSE IF lower(parts[1]) \in cmd_methods
                      THEN call_method(p, lower(parts[1]), parts[2])
                      ELSE p

\* set_end_positions reading track idx where the code reads track idx + 1
RECURSIVE set_end_positions_same_track(_, _)
set_end_positions_same_track(p, idx) ==
    IF idx > Len(p.context_tracks) THEN p
    ELSE IF ~has_key(p.context_tracks[idx], K_POS_START_SAMPLES)
         THEN raise(p, "KeyError")
         ELSE set_end_positions_same_track(
                  [p EXCEPT !.context_tracks[idx] =
                       set_item(@, K_POS_END_SAMPLES,
                                p.context_tracks[idx][K_POS_START_SAMPLES])],
                  idx + 1)

\* the loop that sets POS_END_SAMPLES, from track idx on
RECURSIVE set_end_positions(_, _)
set_end_positions(p, idx) ==
    IF idx > Len(p.context_tracks) THEN p
    ELSE IF idx + 1 > Len(p.context_tracks)
         THEN [p EXCEPT !.context_tracks[idx] =
                            set_item(@, K_POS_END_SAMPLES, PyNone)]
         ELSE IF ~has_key(p.context_tracks[idx + 1], K_POS_START_SAMPLES)
              THEN raise(p, "KeyError")
              ELSE set_end_positions(
                       [p EXCEPT !.context_tracks[idx] =
                            set_item(@, K_POS_END_SAMPLES,
                                     p.context_tracks[idx + 1][K_POS_START_SAMPLES])],
                       idx + 1)

(***************************************************************************)
(* The lines of the sheets the model reads, as readlines() returns them.   *)
(***************************************************************************)
\* PERFORMER "P"
L_PERFORMER_P ==
    <<"P","E","R","F","O","R","M","E","R"," ","\"","P","\"","\n">>

\* PERFORMER "Q"
L_PERFORMER_Q ==
    <<"P","E","R","F","O","R","M","E","R"," ","\"","Q","\"","\n">>

\* TITLE "A"
L_TITLE_A ==
    <<"T","I","T","L","E"," ","\"","A","\"","\n">>

\* title "b"
L_title_b ==
    <<"t","i","t","l","e"," ","\"","b","\"">>

\* FILE "f.w" WAVE
L_FILE ==
    <<"F","I","L","E"," ","\"","f",".","w","\""," ","W","A","V","E","\n">>

\* REM DATE 1999
L_REM_DATE ==
    <<"R","E","M"," ","D","A","T","E"," ","1","9","9","9","\n">>

\* REM GENRE "R"
L_REM_GENRE ==
    <<"R","E","M"," ","G","E","N","R","E"," ","\"","R","\"","\n">>

\* TRACK 01 AUDIO
L_TRACK_01 ==
    <<" "," ","T","R","A","C","K"," ","0","1"," ","A","U","D","I","O","\n">>

\* TRACK 02 AUDIO
L_TRACK_02 ==
    <<" "," ","T","R","A","C","K"," ","0","2"," ","A","U","D","I","O","\n">>

\* INDEX 01 00:00:00
L_INDEX_0 ==
    <<" "," "," "," ","I","N","D","E","X"," ","0","1"," ","0","0",":","0","0",":","0","0","\n">>

\* INDEX 01 02:03:37
L_INDEX_1 ==
    <<" "," "," "," ","I","N","D","E","X"," ","0","1"," ","0","2",":","0","3",":","3","7","\n">>

\* INDEX 01 03:00:00
L_INDEX_2 ==
    <<" "," "," "," ","I","N","D","E","X"," ","0","1"," ","0","3",":","0","0",":","0","0","\n">>

\* FLAGS DCP
L_FLAGS ==
    <<" "," "," "," ","F","L","A","G","S"," ","D","C","P","\n">>

\* an empty line
L_BLANK ==
    <<"\n">>

\* SONGWRITER "S"
L_SONGWRITER ==
    <<"S","O","N","G","W","R","I","T","E","R"," ","\"","S","\"","\n">>

\* CATALOG
L_CATALOG ==
    <<"C","A","T","A","L","O","G","\n">>

\* REM COMMENT
L_REM_COMMENT ==
    <<"R","E","M"," ","C","O","M","M","E","N","T","\n">>

\* INDEX 01
L_INDEX_SHORT ==
    <<" "," "," "," ","I","N","D","E","X"," ","0","1","\n">>

\* TRACK 01
L_TRACK_SHORT ==
    <<" "," ","T","R","A","C","K"," ","0","1","\n">>

\* INDEX 01 0x:00:00
L_INDEX_BAD ==
    <<" "," "," "," ","I","N","D","E","X"," ","0","1"," ","0","x",":","0","0",":","0","0","\n">>

\* REM TRACK_NUM 1
L_REM_TRACK_NUM ==
    <<"R","E","M"," ","T","R","A","C","K","_","N","U","M"," ","1","\n">>

SheetLines ==
    {L_PERFORMER_P, L_PERFORMER_Q, L_TITLE_A, L_title_b,
     L_FILE, L_REM_DATE, L_REM_GENRE, L_TRACK_01,
     L_TRACK_02, L_INDEX_0, L_INDEX_1, L_INDEX_2,
     L_FLAGS, L_BLANK, L_SONGWRITER, L_CATALOG,
     L_REM_COMMENT, L_INDEX_SHORT, L_TRACK_SHORT, L_INDEX_BAD,
     L_REM_TRACK_NUM}

(***************************************************************************)
(* More of Python: the order of strs, str(int), os.path.                   *)
(***************************************************************************)
\* the characters of the model in the order of their code points
CodePoints ==
    <<"\t", "\n", "\r", " ", "\"", "+", "-", ".", "/">> \o Digits \o <<":">>
    \o UpperLetters \o <<"_">> \o LowerLetters

\* ord(c)
ord(c) == CHOOSE i \in 1..Len(CodePoints) : CodePoints[i] = c

\* a < b, for strs
RECURSIVE str_less(_, _)
str_less(a, b) ==
    IF b = <<>> THEN FALSE
    ELSE IF a = <<>> THEN TRUE
    ELSE IF Head(a) # Head(b) THEN ord(Head(a)) < ord(Head(b))
    ELSE str_less(Tail(a), Tail(b))

\* sorted(S), for a collection S of distinct strs
RECURSIVE sorted(_)
sorted(S) ==
    IF S = {} THEN <<>>
    ELSE LET least == CHOOSE x \in S : \A y \in S \ {x} : str_less(x, y)
         IN  <<least>> \o sorted(S \ {least})

\* str(n), for an int n
RECURSIVE str_of_nat(_)
str_of_nat(n) ==
    IF n < 10 THEN <<Digits[n + 1]>>
    ELSE str_of_nat(n \div 10) \o <<Digits[(n % 10) + 1]>>

str_of_int(n) == IF n < 0 THEN <<"-">> \o str_of_nat(0 - n) ELSE str_of_nat(n)

\* str.rjust(width, fill)
RECURSIVE rjust(_, _, _)
rjust(s, width, fill) ==
    IF Len(s) >= width THEN s ELSE rjust(<<fill>> \o s, width, fill)

\* '%s' % value
format_s(value) ==
    CASE value.t = "str" -> value.s
      [] value.t = "int" -> str_of_int(value.n)
      [] value.t = "None" -> <<"N","o","n","e">>

\* os.path.join(a, b)
join(a, b) ==
    IF startswith(b, <<"/">>) THEN b
    ELSE IF a = <<>> \/ endswith(a, <<"/">>) THEN a \o b
    ELSE a \o <<"/">> \o b

\* os.path.split(path): <<head, tail>>
path_split(path) ==
    IF Positions(path, "/") = {} THEN <<(<<>>), path>>
    ELSE LET i == Max(Positions(path, "/"))
             head == SubSeq(path, 1, i)
             stripped == rstrip(head, {"/"})
         IN  <<IF stripped = <<>> THEN head ELSE stripped,
               SubSeq(path, i + 1, Len(path))>>

\* os.path.splitext(f)[1]: from the last dot on, a leading dot apart
splitext_ext(f) ==
    LET name == path_split(f)[2]
        dots == Positions(name, ".")
    IN  IF dots = {} THEN <<>>
        ELSE LET i == Max(dots)
             IN  IF \A j \in 1..i : name[j] = "."
                 THEN <<>>
                 ELSE SubSeq(name, i, Len(name))

\* the directories makedirs(path) makes sure of: path and the ones above it
RECURSIVE ancestors(_)
ancestors(path) ==
    IF path_split(path)[1] = path \/ path_split(path)[1] = <<>>
    THEN {path}
    ELSE {path} \cup ancestors(path_split(path)[1])

(***************************************************************************)
(* The file system the batch runs on.                                      *)
(***************************************************************************)
DEFLACUE_SUBFOLDER_NAME == <<"d","e","f","l","a","c","u","e">>

EXT_CUE == <<".","c","u","e">>

SourcePath == <<"/","m">>

SubDir == <<"/","m","/","d">>

OutDir == <<"/","m","/","d","e","f","l","a","c","u","e">>

\* a directory whose name ends with, and is not, the name of the output
\* subfolder
LookalikeDir == <<"/","m","/","x","d","e","f","l","a","c","u","e">>

HomeDir == <<"/","h">>

DestRoot == <<"/","o">>

F_a_cue == <<"a",".","c","u","e">>

F_b_cue == <<"b",".","c","u","e">>

F_c_cue == <<"c",".","c","u","e">>

F_y_cue == <<"y",".","c","u","e">>

F_z_cue == <<"z",".","c","u","e">>

F_audio == <<"f",".","w">>

F_notes == <<"n",".","t","x","t">>

\* FILE "g.w" WAVE
L_FILE_MISSING ==
    <<"F","I","L","E"," ","\"","g",".","w","\""," ","W","A","V","E","\n">>

\* TITLE "S/1"
L_TITLE_T1 ==
    <<" "," "," "," ","T","I","T","L","E"," ","\"","S","/","1","\"","\n">>

\* TITLE "S2"
L_TITLE_T2 ==
    <<" "," "," "," ","T","I","T","L","E"," ","\"","S","2","\"","\n">>

(***************************************************************************)
(* The sheets of the batch.  A file is its lines and whether its bytes     *)
(* decode under the encoding the parser is given.                          *)
(***************************************************************************)
\* two tracks, every field given
S_TWO ==
    [decodes |-> TRUE,
     lines |-> <<L_PERFORMER_P, L_TITLE_A, L_FILE,
                 L_TRACK_01, L_TITLE_T1, L_INDEX_0,
                 L_TRACK_02, L_TITLE_T2, L_INDEX_2>>]

\* one track, a date
S_ONE ==
    [decodes |-> TRUE,
     lines |-> <<L_REM_DATE, L_FILE, L_TRACK_01, L_TITLE_T2, L_INDEX_0>>]

\* the source file it names is not on the disk
S_MISSING ==
    [decodes |-> TRUE,
     lines |-> <<L_FILE_MISSING, L_TRACK_01, L_TITLE_T2, L_INDEX_0>>]

\* a command line without an argument
S_MALFORMED ==
    [decodes |-> TRUE,
     lines |-> <<L_FILE, L_CATALOG, L_TRACK_01, L_TITLE_T2, L_INDEX_0>>]

\* bytes that do not decode
S_UNDECODABLE == [decodes |-> FALSE, lines |-> <<>>]

\* no FILE line
S_NOFILE ==
    [decodes |-> TRUE,
     lines |-> <<L_PERFORMER_P, L_TRACK_01, L_TITLE_T2, L_INDEX_0>>]

\* a second track without a TITLE line
S_NOTITLE ==
    [decodes |-> TRUE,
     lines |-> <<L_FILE, L_TRACK_01, L_TITLE_T1, L_INDEX_0,
                 L_TRACK_02, L_INDEX_1>>]

\* the second track starts before the first
S_DECREASING ==
    [decodes |-> TRUE,
     lines |-> <<L_FILE, L_TRACK_01, L_TITLE_T1, L_INDEX_1,
                 L_TRACK_02, L_TITLE_T2, L_INDEX_0>>]

\* the sheets by name
Sheets ==
    {"two", "one", "missing", "malformed", "undecodable", "nofile", "notitle",
     "decreasing"}

\* the file of a sheet
sheet_file(name) ==
    CASE name = "two" -> S_TWO
      [] name = "one" -> S_ONE
      [] name = "missing" -> S_MISSING
      [] name = "malformed" -> S_MALFORMED
      [] name = "undecodable" -> S_UNDECODABLE
      [] name = "nofile" -> S_NOFILE
      [] name = "notitle" -> S_NOTITLE
      [] name = "decreasing" -> S_DECREASING

\* the directories under the source path, as walk() finds them
AllDirs == {SourcePath, SubDir, OutDir, LookalikeDir}

\* the files of each directory
dir_files(dir) ==
    CASE dir = SourcePath -> {F_a_cue, F_b_cue, F_audio, F_notes}
      [] dir = SubDir -> {F_c_cue, F_audio}
      [] dir = OutDir -> {F_z_cue, F_audio}
      [] dir = LookalikeDir -> {F_y_cue, F_audio}
      [] OTHER -> {}

\* every path that exists before the run
InitialPaths ==
    {<<"/">>, HomeDir} \cup AllDirs
    \cup UNION {{join(d, f) : f \in dir_files(d)} : d \in AllDirs}

(***************************************************************************)
(* CueParser.__init__ as a whole, on a file.                               *)
(***************************************************************************)
RECURSIVE process_lines(_, _, _)
process_lines(p, lines, i) ==
    IF i > Len(lines) \/ p.error # "" THEN p
    ELSE process_lines(process_line(p, lines[i]), lines, i + 1)

CueParser(file) ==
    IF ~file.decodes THEN raise(new_parser, "DeflacueError")
    ELSE LET q == process_lines(new_parser, file.lines, 1)
         IN  IF q.error # "" THEN q ELSE set_end_positions(q, 1)

\* CueParser(file) for every sheet of the batch
ParsedSheets == [name \in Sheets |-> CueParser(sheet_file(name))]

(***************************************************************************)
(* The state.                                                              *)
(*                                                                         *)
(* Of CueParser.__init__, run line by line:                                *)
(*   stage             where it is: "open" before the file is read,        *)
(*                     "lines" in the loop over the lines, "done" once it  *)
(*                     returned, "failed" once it raised                   *)
(*   context_global, context_tracks, current_context                       *)
(*                     the parser's fields                                 *)
(*   raised            the exception __init__ raised, "" when none         *)
(*   line              the line the loop read last                         *)
(*   nread             the number of lines read                            *)
(*                                                                         *)
(* Of the batch:                                                           *)
(*   args              the options of the run: in_place, dry_run,          *)
(*                     skip_errors, recursive, dest_path.  skip_errors is  *)
(*                     the option --skip-errors of the command line; do    *)
(*                     has no parameter that takes it                      *)
(*   sheets            the sheet that every .cue file holds, by its path   *)
(*   present           the paths that exist                                *)
(*   cwd               the working directory of the process                *)
(*   bstage            where the run is: "start", "paths" (at the top of   *)
(*                     do's loop over the paths), "cues" (at the top of    *)
(*                     its loop over the sheets of a path), "tracks" (in   *)
(*                     _process_cue's loop over the tracks), "returned",   *)
(*                     "raised"                                            *)
(*   dir_initial, paths, files_dict, path_idx, cue_idx, target_path        *)
(*                     the locals of do                                    *)
(*   cd_info, tracks, bundle_path, track_idx                               *)
(*                     the locals of _process_cue                          *)
(*   escaped           the exception that left the run, "" when none       *)
(*   commands          the extraction commands given to the shell, with    *)
(*                     the status each returned                            *)
(*   removed           the calls of remove()                               *)
(*   made              the calls of makedirs()                             *)
(*   log               the warnings and errors logged                      *)
(*                                                                         *)
(* Of a function called on its own:                                        *)
(*   called            the call: the name of the function and its          *)
(*                     arguments                                           *)
(*   returned          <<>> until the call returns, then <<value>>         *)
(***************************************************************************)
VARIABLES stage, context_global, context_tracks, current_context, raised,
          line, nread,
          args, sheets, present, cwd, bstage, dir_initial, paths, files_dict,
          path_idx, cue_idx, target_path, cd_info, tracks, bundle_path,
          track_idx, escaped, commands, removed, made, log,
          called, returned

parser_vars ==
    <<stage, context_global, context_tracks, current_context, raised,
      line, nread>>

batch_vars ==
    <<args, sheets, present, cwd, bstage, dir_initial, paths, files_dict,
      path_idx, cue_idx, target_path, cd_info, tracks, bundle_path,
      track_idx, escaped, commands, removed, made, log>>

function_vars == <<called, returned>>

vars == <<parser_vars, batch_vars, function_vars>>

(***************************************************************************)
(* CueParser.__init__, line by line.                                       *)
(***************************************************************************)
\* the parser's fields as one record
parser ==
    [context_global |-> context_global,
     context_tracks |-> context_tracks,
     current_context |-> current_context,
     error |-> ""]

\* the fields take the values of q
StoreParser(q) ==
    /\ context_global' = q.context_global
    /\ context_tracks' = q.context_tracks
    /\ current_context' = q.current_context
    /\ raised' = q.error

ParserFresh ==
    /\ stage = "open"
    /\ context_global = new_parser.context_global
    /\ context_tracks = new_parser.context_tracks
    /\ current_context = new_parser.current_context
    /\ raised = ""
    /\ line = <<>>
    /\ nread = 0

\* open(cue_filepath, encoding=encoding) and f.readlines(): the text decodes,
\* or UnicodeDecodeError is turned into DeflacueError
ReadLines ==
    /\ stage = "open"
    /\ \E decodes \in BOOLEAN :
          IF decodes
          THEN stage' = "lines" /\ raised' = raised
          ELSE stage' = "failed" /\ raised' = "DeflacueError"
    /\ UNCHANGED <<context_global, context_tracks, current_context, line, nread>>
    /\ UNCHANGED batch_vars
    /\ UNCHANGED function_vars

\* one turn of `for line in lines`
ParseLine ==
    /\ stage = "lines"
    /\ nread < MaxLines
    /\ \E raw \in SheetLines :
          LET q == process_line(parser, raw)
          IN  /\ StoreParser(q)
              /\ line' = raw
              /\ stage' = IF q.error = "" THEN "lines" ELSE "failed"
    /\ nread' = nread + 1
    /\ UNCHANGED batch_vars
    /\ UNCHANGED function_vars

\* the lines are used up: the loop over the tracks, and __init__ returns
EndOfLines ==
    /\ stage = "lines"
    /\ LET q == set_end_positions(parser, 1)
       IN  /\ StoreParser(q)
           /\ stage' = IF q.error = "" THEN "done" ELSE "failed"
    /\ UNCHANGED <<line, nread>>
    /\ UNCHANGED batch_vars
    /\ UNCHANGED function_vars

(***************************************************************************)
(* Deflacue: the file system and the helpers of the batch.                 *)
(***************************************************************************)
\* os.path.exists(path) with the working directory dir: a relative path is
\* taken from there
exists_from(dir, path) == join(dir, path) \in present

\* os.path.exists(path)
exists(path) == exists_from(cwd, path)

\* whether _create_target_path(path), with the working directory dir, comes
\* to call makedirs
calls_makedirs_from(dir, path) == ~(exists_from(dir, path) \/ args.dry_run)

calls_makedirs(path) == calls_makedirs_from(cwd, path)

\* _get_dir_files: the directories listed
listed_dirs(recursive) == IF recursive THEN AllDirs ELSE {SourcePath}

\* _filter_target_extensions: the keys of files_filtered
filtered_paths(recursive) ==
    {path \in listed_dirs(recursive) :
        /\ ~endswith(path, DEFLACUE_SUBFOLDER_NAME)
        /\ \E f \in dir_files(path) : splitext_ext(f) = EXT_CUE}

\* _filter_target_extensions: files_filtered[path]
filtered_files(path) ==
    LET files == sorted(dir_files(path))
    IN  SelectSeq(files, LAMBDA f : splitext_ext(f) = EXT_CUE)

\* target_path_of were the destination used as it is, with no subdirectory
\* named after the directory worked on
target_path_flat(path) ==
    IF args.in_place THEN path
    ELSE IF args.dest_path = PyNone THEN join(path, DEFLACUE_SUBFOLDER_NAME)
    ELSE args.dest_path.s

\* the target path do works out for a path
target_path_of(path) ==
    IF args.in_place THEN path
    ELSE IF args.dest_path = PyNone THEN join(path, DEFLACUE_SUBFOLDER_NAME)
    ELSE join(args.dest_path.s, path_split(path)[2])

\* the cue file do is at
cue_filepath == join(paths[path_idx], files_dict[paths[path_idx]][cue_idx])

\* where the run goes on, what left it and what it logged
control ==
    [bstage |-> bstage, path_idx |-> path_idx, cue_idx |-> cue_idx,
     escaped |-> escaped, log |-> log]

StoreControl(c) ==
    /\ bstage' = c.bstage
    /\ path_idx' = c.path_idx
    /\ cue_idx' = c.cue_idx
    /\ escaped' = c.escaped
    /\ log' = c.log

\* the loop over the sheets goes to its next turn, or the loop over the
\* paths does
next_cue(c) ==
    IF c.cue_idx < Len(files_dict[paths[c.path_idx]])
    THEN [c EXCEPT !.bstage = "cues", !.cue_idx = c.cue_idx + 1]
    ELSE [c EXCEPT !.bstage = "paths", !.path_idx = c.path_idx + 1, !.cue_idx = 1]

\* an exception leaves do
escape(c, exception) == [c EXCEPT !.bstage = "raised", !.escaped = exception]

logged(c, level, what, about) ==
    [c EXCEPT !.log = Append(@, [level |-> level, what |-> what, about |-> about])]

\* do's except clause for a DeflacueError out of _process_cue
except_DeflacueError(c) ==
    IF args.in_place
    THEN next_cue(logged(c, "warning", "DeflacueError", cue_filepath))
    ELSE escape(c, "DeflacueError")

\* an exception out of _process_cue
raised_in_process_cue(c, exception) ==
    IF exception = "DeflacueError"
    THEN except_DeflacueError(c)
    ELSE escape(c, exception)

\* _process_cue where the source file is missing, were it to raise
source_missing_raises(c, file) == raised_in_process_cue(c, "DeflacueError")

\* _process_cue where the source file is missing: logged, and it returns
source_missing(c, file) == next_cue(logged(c, "error", "not found", file))

\* the file _process_cue would remove, were it the sheet
removed_file_sheet == cue_filepath

\* the file _process_cue removes in place
removed_file == join(cwd, cd_info[K_FILE].s)

V_TRACKNUMBER == <<"T","R","A","C","K","N","U","M","B","E","R">>

V_ARTIST == <<"A","R","T","I","S","T">>

\* _COMMENTS_CUE_TO_VORBIS, in the order of its items
COMMENTS_CUE_TO_VORBIS ==
    << <<K_TRACK_NUM, V_TRACKNUMBER>>, <<K_TITLE, K_TITLE>>,
       <<K_PERFORMER, V_ARTIST>>, <<K_ALBUM, K_ALBUM>>,
       <<K_GENRE, K_GENRE>>, <<K_DATE, K_DATE>> >>

\* add_comment were it to leave out the fields whose value is empty
RECURSIVE add_comment_skipping_empty(_, _)
add_comment_skipping_empty(metadata, i) ==
    IF i > Len(COMMENTS_CUE_TO_VORBIS) THEN <<>>
    ELSE LET key == COMMENTS_CUE_TO_VORBIS[i][1]
             val == COMMENTS_CUE_TO_VORBIS[i][2]
         IN  (IF has_key(metadata, key) /\ metadata[key] # PyNone
                 /\ format_s(metadata[key]) # <<>>
              THEN << <<val, format_s(metadata[key])>> >>
              ELSE <<>>)
             \o add_comment_skipping_empty(metadata, i + 1)

\* _sox_extract_audio: the --add-comment options, from item i on
RECURSIVE add_comment(_, _)
add_comment(metadata, i) ==
    IF i > Len(COMMENTS_CUE_TO_VORBIS) THEN <<>>
    ELSE LET key == COMMENTS_CUE_TO_VORBIS[i][1]
             val == COMMENTS_CUE_TO_VORBIS[i][2]
         IN  (IF has_key(metadata, key) /\ metadata[key] # PyNone
              THEN << <<val, format_s(metadata[key])>> >>
              ELSE <<>>)
             \o add_comment(metadata, i + 1)

\* track_filename were the track number not padded
track_filename_unpadded(track, tracks_count) ==
    str_of_int(track[K_TRACK_NUM].n)
    \o <<" ", "-", " ">> \o remove_char(track[K_TITLE].s, "/")
    \o <<".", "f", "l", "a", "c">>

\* _process_cue: the file name of a track
track_filename(track, tracks_count) ==
    rjust(str_of_int(track[K_TRACK_NUM].n), Len(str_of_int(tracks_count)), "0")
    \o <<" ", "-", " ">> \o remove_char(track[K_TITLE].s, "/")
    \o <<".", "f", "l", "a", "c">>

\* the exception the body of the loop over the tracks raises before the
\* command is run, "" when none
track_error(track) ==
    IF ~has_key(track, K_TRACK_NUM) \/ ~has_key(track, K_TITLE) THEN "KeyError"
    ELSE IF track[K_TITLE].t # "str" THEN "AttributeError"
    ELSE IF ~has_key(track, K_POS_START_SAMPLES) THEN "KeyError"
    ELSE IF track[K_POS_END_SAMPLES] # PyNone
            /\ (track[K_POS_END_SAMPLES].t # "int"
                \/ track[K_POS_START_SAMPLES].t # "int")
         THEN "TypeError"
    ELSE ""

\* chunk_length_samples were a negative length put right to zero
chunk_length_samples_clamped(pos_start_samples, pos_end_samples) ==
    IF pos_end_samples # PyNone
    THEN str_of_int(Max({0, pos_end_samples.n - pos_start_samples.n})) \o <<"s">>
    ELSE <<>>

\* _sox_extract_audio: chunk_length_samples
chunk_length_samples(pos_start_samples, pos_end_samples) ==
    IF pos_end_samples # PyNone
    THEN str_of_int(pos_end_samples.n - pos_start_samples.n) \o <<"s">>
    ELSE <<>>

\* _sox_extract_audio: what goes into the command
sox_command(track, target_file) ==
    [source |-> format_s(track[K_FILE]),
     add_comment |-> add_comment(track, 1),
     target |-> target_file,
     start_pos |-> format_s(track[K_POS_START_SAMPLES]),
     length |-> chunk_length_samples(track[K_POS_START_SAMPLES],
                                     track[K_POS_END_SAMPLES])]

\* _process_cue: the bundle path
bundle_path_of(info) ==
    IF args.in_place THEN target_path
    ELSE LET title == IF info[K_DATE] # PyNone
                      THEN format_s(info[K_DATE]) \o <<" ", "-", " ">>
                           \o format_s(info[K_ALBUM])
                      ELSE info[K_ALBUM].s
         IN  join(join(target_path, info[K_PERFORMER].s), title)

(***************************************************************************)
(* The batch, step by step.                                                *)
(***************************************************************************)
BatchIdle ==
    /\ args = [in_place |-> FALSE, dry_run |-> FALSE, skip_errors |-> FALSE,
               recursive |-> FALSE, dest_path |-> PyNone]
    /\ sheets = <<>>
    /\ present = {}
    /\ cwd = HomeDir
    /\ bstage = "idle"
    /\ dir_initial = <<>>
    /\ paths = <<>>
    /\ files_dict = <<>>
    /\ path_idx = 1
    /\ cue_idx = 1
    /\ target_path = <<>>
    /\ cd_info = new_context_global
    /\ tracks = <<>>
    /\ bundle_path = <<>>
    /\ track_idx = 1
    /\ escaped = ""
    /\ commands = <<>>
    /\ removed = <<>>
    /\ made = <<>>
    /\ log = <<>>

BatchStart ==
    /\ args \in [in_place : BOOLEAN, dry_run : BOOLEAN, skip_errors : BOOLEAN,
                 recursive : BOOLEAN, dest_path : {PyNone, PyStr(DestRoot)}]
    /\ \E a \in Sheets, b \in Sheets :
          sheets = (join(SourcePath, F_a_cue) :> a)
                   @@ (join(SourcePath, F_b_cue) :> b)
                   @@ (join(SubDir, F_c_cue) :> "one")
                   @@ (join(OutDir, F_z_cue) :> "one")
                   @@ (join(LookalikeDir, F_y_cue) :> "one")
    /\ present = InitialPaths
    /\ cwd = HomeDir
    /\ bstage = "start"
    /\ dir_initial = <<>>
    /\ paths = <<>>
    /\ files_dict = <<>>
    /\ path_idx = 1
    /\ cue_idx = 1
    /\ target_path = <<>>
    /\ cd_info = new_context_global
    /\ tracks = <<>>
    /\ bundle_path = <<>>
    /\ track_idx = 1
    /\ escaped = ""
    /\ commands = <<>>
    /\ removed = <<>>
    /\ made = <<>>
    /\ log = <<>>

\* run_deflacue, from the parsed arguments on: without SoX it logs the
\* DeflacueError and returns; with SoX it calls do with the keyword
\* skip_errors, which do does not take
RunDeflacue ==
    /\ bstage = "start"
    /\ \E sox_available \in BOOLEAN :
          IF sox_available
          THEN StoreControl(escape(control, "TypeError"))
          ELSE StoreControl(
                   [logged(control, "error", "DeflacueError", <<>>)
                        EXCEPT !.bstage = "returned"])
    /\ UNCHANGED <<args, sheets, present, cwd, dir_initial, paths, files_dict,
                   target_path, cd_info, tracks, bundle_path, track_idx,
                   commands, removed, made>>
    /\ UNCHANGED parser_vars
    /\ UNCHANGED function_vars

\* do, up to its loop over the paths
DoBegin ==
    /\ bstage = "start"
    /\ \E makedirs_ok \in BOOLEAN :
          LET creates == /\ ~args.in_place
                         /\ args.dest_path # PyNone
                         /\ ~exists(args.dest_path.s)
                         /\ calls_makedirs(args.dest_path.s)
          IN  IF creates /\ ~makedirs_ok
              THEN /\ StoreControl(escape(control, "DeflacueError"))
                   /\ UNCHANGED <<present, made, dir_initial, paths, files_dict>>
              ELSE /\ present' = IF creates
                                 THEN present \cup ancestors(args.dest_path.s)
                                 ELSE present
                   /\ made' = IF creates THEN Append(made, args.dest_path.s) ELSE made
                   /\ files_dict' = [path \in filtered_paths(args.recursive)
                                        |-> filtered_files(path)]
                   /\ dir_initial' = cwd
                   /\ paths' = sorted(filtered_paths(args.recursive))
                   /\ StoreControl([control EXCEPT !.bstage = "paths"])
    /\ UNCHANGED <<args, sheets, cwd, target_path, cd_info, tracks, bundle_path,
                   track_idx, commands, removed>>
    /\ UNCHANGED parser_vars
    /\ UNCHANGED function_vars

\* one turn of the loop over the paths, up to its loop over the sheets
EnterPath ==
    /\ bstage = "paths"
    /\ path_idx <= Len(paths)
    /\ cwd' = paths[path_idx]
    /\ target_path' = target_path_of(paths[path_idx])
    /\ \E makedirs_ok \in BOOLEAN :
          LET creates == /\ ~args.in_place
                         /\ calls_makedirs_from(paths[path_idx],
                                                target_path_of(paths[path_idx]))
          IN  IF creates /\ ~makedirs_ok
              THEN /\ StoreControl(escape(control, "DeflacueError"))
                   /\ UNCHANGED <<present, made>>
              ELSE /\ present' = IF creates
                                 THEN present \cup ancestors(target_path_of(paths[path_idx]))
                                 ELSE present
                   /\ made' = IF creates
                              THEN Append(made, target_path_of(paths[path_idx]))
                              ELSE made
                   /\ StoreControl([control EXCEPT !.bstage = "cues"])
    /\ UNCHANGED <<args, sheets, dir_initial, paths, files_dict, cd_info, tracks,
                   bundle_path, track_idx, commands, removed>>
    /\ UNCHANGED parser_vars
    /\ UNCHANGED function_vars

\* _process_cue, up to its loop over the tracks
ProcessCueBegin ==
    /\ bstage = "cues"
    /\ \E makedirs_ok \in BOOLEAN :
          LET p == ParsedSheets[sheets[cue_filepath]]
              info == p.context_global
              bundle == bundle_path_of(info)
              creates == ~args.in_place /\ calls_makedirs(bundle)
          IN  IF p.error # ""
              THEN /\ StoreControl(raised_in_process_cue(control, p.error))
                   /\ UNCHANGED <<cd_info, tracks, bundle_path, track_idx, present, made>>
              ELSE IF info[K_FILE] = PyNone
              THEN /\ StoreControl(escape(control, "TypeError"))
                   /\ cd_info' = info
                   /\ UNCHANGED <<tracks, bundle_path, track_idx, present, made>>
              ELSE IF ~exists(info[K_FILE].s)
              THEN /\ StoreControl(source_missing(control, info[K_FILE].s))
                   /\ cd_info' = info
                   /\ UNCHANGED <<tracks, bundle_path, track_idx, present, made>>
              ELSE IF creates /\ ~makedirs_ok
              THEN /\ StoreControl(raised_in_process_cue(control, "DeflacueError"))
                   /\ cd_info' = info
                   /\ tracks' = p.context_tracks
                   /\ bundle_path' = bundle
                   /\ UNCHANGED <<track_idx, present, made>>
              ELSE /\ StoreControl([control EXCEPT !.bstage = "tracks"])
                   /\ cd_info' = info
                   /\ tracks' = p.context_tracks
                   /\ bundle_path' = bundle
                   /\ track_idx' = 1
                   /\ present' = IF creates THEN present \cup ancestors(bundle)
                                 ELSE present
                   /\ made' = IF creates THEN Append(made, bundle) ELSE made
    /\ UNCHANGED <<args, sheets, cwd, dir_initial, paths, files_dict, target_path,
                   commands, removed>>
    /\ UNCHANGED parser_vars
    /\ UNCHANGED function_vars

\* one turn of the loop over the tracks: the command is run, unless the run
\* is a dry run, and returns a status
ExtractTrack ==
    /\ bstage = "tracks"
    /\ track_idx <= Len(tracks)
    /\ \E returncode \in {0, 1} :
          LET track == tracks[track_idx]
              error == track_error(track)
              target == join(bundle_path, track_filename(track, Len(tracks)))
              runs == ~args.dry_run
          IN  IF error # ""
              THEN /\ StoreControl(escape(control, error))
                   /\ UNCHANGED <<commands, track_idx>>
              ELSE /\ commands' =
                         IF runs
                         THEN Append(commands,
                                     [cue |-> cue_filepath,
                                      cwd |-> cwd,
                                      command |-> sox_command(track, target),
                                      returncode |-> returncode])
                         ELSE commands
                   /\ IF runs /\ returncode # 0
                      THEN /\ StoreControl(except_DeflacueError(control))
                           /\ UNCHANGED track_idx
                      ELSE /\ StoreControl(control)
                           /\ track_idx' = track_idx + 1
    /\ UNCHANGED <<args, sheets, present, cwd, dir_initial, paths, files_dict,
                   target_path, cd_info, tracks, bundle_path, removed, made>>
    /\ UNCHANGED parser_vars
    /\ UNCHANGED function_vars

\* _process_cue, after its loop over the tracks
ProcessCueEnd ==
    /\ bstage = "tracks"
    /\ track_idx > Len(tracks)
    /\ IF args.in_place
       THEN /\ present' = present \ {removed_file}
            /\ removed' = Append(removed,
                                 [cue |-> cue_filepath, file |-> removed_file])
       ELSE UNCHANGED <<present, removed>>
    /\ StoreControl(next_cue(control))
    /\ UNCHANGED <<args, sheets, cwd, dir_initial, paths, files_dict, target_path,
                   cd_info, tracks, bundle_path, track_idx, commands, made>>
    /\ UNCHANGED parser_vars
    /\ UNCHANGED function_vars

\* do, after its loop over the paths
DoEnd ==
    /\ bstage = "paths"
    /\ path_idx > Len(paths)
    /\ cwd' = dir_initial
    /\ StoreControl([control EXCEPT !.bstage = "returned"])
    /\ UNCHANGED <<args, sheets, present, dir_initial, paths, files_dict,
                   target_path, cd_info, tracks, bundle_path, track_idx,
                   commands, removed, made>>
    /\ UNCHANGED parser_vars
    /\ UNCHANGED function_vars

(***************************************************************************)
(* The functions called on their own.                                      *)
(***************************************************************************)
\* no function is called
FunctionsIdle ==
    /\ called = [fn |-> "", args |-> <<>>]
    /\ returned = <<>>

\* the sequences of at most n members of S
SeqsUpTo(S, n) == UNION {[1..k -> S] : k \in 0..n}

\* the lines of the sheets CueParser is called on: TRACK and INDEX lines
TrackAndIndexLines == {L_TRACK_01, L_TRACK_02, L_INDEX_0, L_INDEX_1, L_INDEX_2}

\* CueParser(cue_filepath), for the files of at most MaxSheetLen such lines
CueParserCalls ==
    {[fn |-> "CueParser", args |-> <<[decodes |-> TRUE, lines |-> lines]>>] :
        lines \in SeqsUpTo(TrackAndIndexLines, MaxSheetLen)}

\* the timestamp mm:ss:ff, each group written with two digits
timestamp(mm, ss, ff) ==
    rjust(str_of_nat(mm), 2, "0") \o <<":">> \o rjust(str_of_nat(ss), 2, "0")
    \o <<":">> \o rjust(str_of_nat(ff), 2, "0")

\* _timestr_to_samples(timestr), for the timestamps up to
\* MaxMinutes:MaxSeconds:MaxFrames
TimestrToSamplesCalls ==
    {[fn |-> "_timestr_to_samples", args |-> <<timestamp(mm, ss, ff)>>] :
        mm \in 0..MaxMinutes, ss \in 0..MaxSeconds, ff \in 0..MaxFrames}

\* REM GENRE ""
L_REM_GENRE_EMPTY ==
    <<"R","E","M"," ","G","E","N","R","E"," ","\"","\"","\n">>

\* the sheets whose first track is the metadata of the calls of
\* _sox_extract_audio: each of the lines but TRACK and INDEX is there or not
MetadataSheets ==
    {performer \o album \o date \o genre \o <<L_TRACK_01>> \o title
     \o track_performer \o <<L_INDEX_0>> :
        performer \in {<<>>, <<L_PERFORMER_P>>},
        album \in {<<>>, <<L_TITLE_A>>},
        date \in {<<>>, <<L_REM_DATE>>},
        genre \in {<<>>, <<L_REM_GENRE>>, <<L_REM_GENRE_EMPTY>>},
        title \in {<<>>, <<L_TITLE_T2>>},
        track_performer \in {<<>>, <<L_PERFORMER_Q>>}}

\* _sox_extract_audio(..., metadata=track): the building of add_comment
AddCommentCalls ==
    {[fn |-> "add_comment",
      args |-> <<CueParser([decodes |-> TRUE, lines |-> lines]).context_tracks[1]>>] :
        lines \in MetadataSheets}

\* TRACK <num> AUDIO, the number written with two digits at least
track_line(num) ==
    <<" "," ","T","R","A","C","K"," ">> \o rjust(str_of_nat(num), 2, "0")
    \o <<" ","A","U","D","I","O","\n">>

\* the track that a sheet declares with the number num and the given TITLE
\* line
declared_track(num, title_line) ==
    process_line(process_line(new_parser, track_line(num)),
                 title_line).context_tracks[1]

\* the numbers of tracks of the sheets whose tracks are given file names
TrackCounts == {1, 9, 10, 12, 99, 100, 150}

\* _process_cue, lines 242-249: the file name of the track num of a sheet of
\* tracks_count tracks
TrackFilenameCalls ==
    {[fn |-> "track_filename",
      args |-> <<declared_track(nt[1], title_line), nt[2]>>] :
        nt \in {nt \in (1..Max(TrackCounts)) \X TrackCounts : nt[1] <= nt[2]},
        title_line \in {L_TITLE_T1, L_TITLE_T2}}

\* a call is made and has not returned
FunctionCalled ==
    /\ \/ called \in CueParserCalls
       \/ called \in TimestrToSamplesCalls
       \/ called \in AddCommentCalls
       \/ called \in TrackFilenameCalls
    /\ returned = <<>>

\* _timestr_to_samples(timestr)
CallTimestrToSamples ==
    /\ called.fn = "_timestr_to_samples"
    /\ returned = <<>>
    /\ returned' = <<IF timestr_ok(called.args[1])
                     THEN PyInt(timestr_to_samples(called.args[1]))
                     ELSE PyNone>>
    /\ UNCHANGED called
    /\ UNCHANGED parser_vars
    /\ UNCHANGED batch_vars

\* _sox_extract_audio, lines 178-185: add_comment is built from metadata
CallAddComment ==
    /\ called.fn = "add_comment"
    /\ returned = <<>>
    /\ returned' = <<add_comment(called.args[1], 1)>>
    /\ UNCHANGED called
    /\ UNCHANGED parser_vars
    /\ UNCHANGED batch_vars

\* _process_cue, lines 242-249: track_num and filename
CallTrackFilename ==
    /\ called.fn = "track_filename"
    /\ returned = <<>>
    /\ returned' = <<track_filename(called.args[1], called.args[2])>>
    /\ UNCHANGED called
    /\ UNCHANGED parser_vars
    /\ UNCHANGED batch_vars

\* parser = CueParser(cue_filepath, encoding=self._encoding)
CallCueParser ==
    /\ called.fn = "CueParser"
    /\ returned = <<>>
    /\ returned' = <<CueParser(called.args[1])>>
    /\ UNCHANGED called
    /\ UNCHANGED parser_vars
    /\ UNCHANGED batch_vars

(***************************************************************************)
(* The specifications.                                                     *)
(***************************************************************************)
InitParser == ParserFresh /\ BatchIdle /\ FunctionsIdle

NextParser == ReadLines \/ ParseLine \/ EndOfLines

SpecParser == InitParser /\ [][NextParser]_vars

Init == ParserFresh /\ BatchStart /\ FunctionsIdle

Next ==
    \/ RunDeflacue
    \/ DoBegin
    \/ EnterPath
    \/ ProcessCueBegin
    \/ ExtractTrack
    \/ ProcessCueEnd
    \/ DoEnd

Spec == Init /\ [][Next]_vars

InitFunctions == ParserFresh /\ BatchIdle /\ FunctionCalled

NextFunctions ==
    \/ CallCueParser
    \/ CallTimestrToSamples
    \/ CallAddComment
    \/ CallTrackFilename

SpecFunctions == InitFunctions /\ [][NextFunctions]_vars

(***************************************************************************)
(* What the claims speak of.                                               *)
(***************************************************************************)
\* the step read a line
LineRead == nread' = nread + 1

\* the command name of a line: what stands before its first space
CommandName(raw) == split1(strip(raw, Whitespace), " ")[1]

\* the line has a command name and a space-separated argument after it
HasArgument(raw) == Len(split1(strip(raw, Whitespace), " ")) = 2

\* the line is not empty and its command name is none of REM, PERFORMER,
\* TITLE, FILE, INDEX, TRACK, FLAGS, in any case of the letters
Unrecognized(raw) ==
    /\ strip(raw, Whitespace) # <<>>
    /\ lower(CommandName(raw)) \notin cmd_methods

\* the line is the command `name` with an argument
IsCommand(raw, name) == HasArgument(raw) /\ lower(CommandName(raw)) = name

\* the argument of a line of HasArgument
Argument(raw) == split1(strip(raw, Whitespace), " ")[2]

\* a command line that has no space-separated argument
NoArgument(raw) == strip(raw, Whitespace) # <<>> /\ ~HasArgument(raw)

\* an INDEX or TRACK line with too few tokens
TooFewTokens(raw) ==
    /\ IsCommand(raw, M_index) \/ IsCommand(raw, M_track)
    /\ Len(split(Argument(raw))) < 2

\* an INDEX line whose timestamp has a non-numeric group
NonNumericTimestamp(raw) ==
    /\ IsCommand(raw, M_index)
    /\ Len(split(Argument(raw))) >= 2
    /\ ~timestr_ok(split(Argument(raw))[2])

(***************************************************************************)
(* The claims about CueParser, under SpecParser.                           *)
(***************************************************************************)
\* C1: once CueParser has finished a sheet with N tracks, the end offset
\* (POS_END_SAMPLES) of every track but the last is the start offset
\* (POS_START_SAMPLES) of the track declared after it, and the end offset of
\* the last track is None.
C1_EndIsNextStart ==
    stage = "done" =>
        \A i \in 1..Len(context_tracks) :
            /\ has_key(context_tracks[i], K_POS_END_SAMPLES)
            /\ IF i < Len(context_tracks)
               THEN /\ has_key(context_tracks[i + 1], K_POS_START_SAMPLES)
                    /\ context_tracks[i][K_POS_END_SAMPLES]
                           = context_tracks[i + 1][K_POS_START_SAMPLES]
               ELSE context_tracks[i][K_POS_END_SAMPLES] = PyNone

\* a finished sheet of two tracks that start at different offsets
C1_Witness ==
    /\ stage = "done"
    /\ Len(context_tracks) = 2
    /\ has_key(context_tracks[1], K_POS_START_SAMPLES)
    /\ context_tracks[1][K_POS_START_SAMPLES] = PyInt(0)
    /\ context_tracks[1][K_POS_END_SAMPLES] = PyInt(3 * 60 * DEFAULT_SAMPLE_RATE)
    /\ context_tracks[2][K_POS_END_SAMPLES] = PyNone

\* C2: the current context starts as the global record; a TRACK command
\* makes the track record it appends, the most recent one, the current
\* context; and once the current context is a track record it never is the
\* global record again, whatever lines follow.
C2_ContextOneWay ==
    /\ current_context = 0
    /\ [][/\ current_context # 0 => current_context' # 0
          /\ (LineRead /\ IsCommand(line', M_track) /\ raised' = "")
                => /\ Len(context_tracks') = Len(context_tracks) + 1
                   /\ current_context' = Len(context_tracks')
          /\ current_context' # current_context
                => /\ Len(context_tracks') = Len(context_tracks) + 1
                   /\ current_context' = Len(context_tracks')]_vars

\* lines went on after a second TRACK command, with the second track current
C2_Witness ==
    /\ stage = "lines"
    /\ Len(context_tracks) = 2
    /\ current_context = 2
    /\ nread = MaxLines
    /\ ~IsCommand(line, M_track)

\* C3: a field write made by REM, PERFORMER, TITLE, FILE or INDEX changes
\* the current context only: the current context stays the same record, no
\* track is added, every other track record keeps all its fields, and so
\* does the global record when the current context is a track.
C3_WritesOnlyCurrent ==
    [][(LineRead /\ \E name \in {M_rem, M_performer, M_title, M_file, M_index} :
                        IsCommand(line', name))
          => /\ current_context' = current_context
             /\ Len(context_tracks') = Len(context_tracks)
             /\ \A i \in 1..Len(context_tracks) :
                    i # current_context => context_tracks'[i] = context_tracks[i]
             /\ current_context # 0 => context_global' = context_global]_vars

\* a PERFORMER written within the second track, which the global record and
\* the first track do not show
C3_Witness ==
    /\ Len(context_tracks) = 2
    /\ current_context = 2
    /\ IsCommand(line, M_performer)
    /\ context_tracks[2][K_PERFORMER] # context_global[K_PERFORMER]
    /\ context_tracks[1][K_PERFORMER] = context_global[K_PERFORMER]

\* C9 as claimed: a line whose command name is not a recognized command
\* never makes the parse fail, and leaves the global record, the track
\* sequence and the current context as they were.
C9_AsClaimed ==
    [][(LineRead /\ Unrecognized(line'))
          => /\ stage' = "lines"
             /\ raised' = ""
             /\ context_global' = context_global
             /\ context_tracks' = context_tracks
             /\ current_context' = current_context]_vars

\* C9: a line whose command name is not a recognized command and that has a
\* space-separated argument after the name never makes the parse fail:
\* parsing goes on with the next line, and the global record, the track
\* sequence and the current context are left as they were.
C9_UnknownWithArgumentSkipped ==
    [][(LineRead /\ Unrecognized(line') /\ HasArgument(line'))
          => /\ stage' = "lines"
             /\ raised' = ""
             /\ context_global' = context_global
             /\ context_tracks' = context_tracks
             /\ current_context' = current_context]_vars

\* an unknown command with an argument was read within a track, and the
\* parse goes on
C9_Witness ==
    /\ stage = "lines"
    /\ line = L_SONGWRITER
    /\ current_context = 1
    /\ has_key(context_tracks[1], K_POS_START_SAMPLES)

\* C10 as claimed: a command line without a space-separated argument, an
\* INDEX or TRACK line with too few tokens, and a timestamp with a
\* non-numeric group each make the parse fail with the application's own
\* error (FormatError, a kind of DeflacueError).
C10_AsClaimed ==
    (nread > 0 /\ (NoArgument(line) \/ TooFewTokens(line) \/ NonNumericTimestamp(line)))
        => stage = "failed" /\ raised \in {"FormatError", "DeflacueError"}

\* C12 as claimed: a TITLE line processed while the current context is the
\* global record sets ALBUM of the global record and nothing else; a TITLE
\* line processed after a TRACK command sets TITLE of the current track and
\* nothing else, so that ALBUM of no record changes, whatever the fields of
\* the track and the global record at that moment.
C12_AsClaimed ==
    [][(LineRead /\ IsCommand(line', M_title))
          => /\ raised' = ""
             /\ IF current_context = 0
                THEN /\ context_global' =
                           set_item(context_global, K_ALBUM,
                                    PyStr(unquote(Argument(line'))))
                     /\ context_tracks' = context_tracks
                ELSE /\ context_tracks' =
                           [context_tracks EXCEPT ![current_context] =
                               set_item(@, K_TITLE,
                                        PyStr(unquote(Argument(line'))))]
                     /\ context_global' = context_global]_vars

\* C20: every track record is created as a copy of the global record with
\* its own track number, never of a track before it, so that a field written
\* within one track is in no later track; and the global record is not
\* written once the current context is a track, so that all tracks of a
\* sheet inherit the same values.
C20_TracksCopyGlobal ==
    [][/\ (LineRead /\ IsCommand(line', M_track) /\ raised' = "")
             => /\ Len(context_tracks') = Len(context_tracks) + 1
                /\ context_tracks'[Len(context_tracks')] =
                       set_item(context_global, K_TRACK_NUM,
                                PyInt(DigitsValue(split(Argument(line'))[1])))
                /\ \A i \in 1..Len(context_tracks) :
                       context_tracks'[i] = context_tracks[i]
       /\ current_context # 0 => context_global' = context_global]_vars

\* PERFORMER was written within the first track, and the second track, just
\* declared, has the performer of the global record
C20_Witness ==
    /\ Len(context_tracks) = 2
    /\ line = L_TRACK_02
    /\ context_global[K_PERFORMER] = PyStr(<<"P">>)
    /\ context_tracks[1][K_PERFORMER] = PyStr(<<"Q">>)
    /\ context_tracks[2][K_PERFORMER] = PyStr(<<"P">>)
    /\ context_tracks[2] = set_item(context_global, K_TRACK_NUM, PyInt(2))

(***************************************************************************)
(* The claims about the batch, under Spec.                                 *)
(***************************************************************************)
\* the run is over: do returned or an exception left it
RunOver == bstage \in {"returned", "raised"}

\* the step ran an extraction command that returned a non-zero status
JobFailed ==
    /\ Len(commands') = Len(commands) + 1
    /\ commands'[Len(commands')].returncode # 0

\* the batch goes on with the sheet after this one
GoesOnWithNextSheet ==
    /\ bstage' \in {"cues", "paths"}
    /\ escaped' = ""
    /\ <<path_idx', cue_idx'>> # <<path_idx, cue_idx>>

\* _process_cue is about to start on a sheet that parses and names a source
\* file that is not on the disk
AtSheetOfMissingSource ==
    /\ bstage = "cues"
    /\ ParsedSheets[sheets[cue_filepath]].error = ""
    /\ ParsedSheets[sheets[cue_filepath]].context_global[K_FILE] # PyNone
    /\ ~exists(ParsedSheets[sheets[cue_filepath]].context_global[K_FILE].s)

\* _process_cue is about to start on a sheet that the parser fails on: its
\* bytes do not decode, or one of its lines is malformed
AtSheetOfParserError ==
    /\ bstage = "cues"
    /\ ParsedSheets[sheets[cue_filepath]].error # ""

\* the commands run for a sheet
CommandsOf(cue) == SelectSeq(commands, LAMBDA c : c.cue = cue)

\* the number of tracks of a sheet
TracksOf(cue) == Len(ParsedSheets[sheets[cue]].context_tracks)

\* the source audio file a sheet names, seen from the sheet's directory
SourceFileOf(cue) ==
    join(path_split(cue)[1], ParsedSheets[sheets[cue]].context_global[K_FILE].s)

\* C4 as claimed: whichever way the batch run ends, by do returning or by an
\* error leaving it, the working directory is again the one that was current
\* when the run was started.
C4_AsClaimed == RunOver => cwd = HomeDir

\* C5 as claimed: when an extraction job fails, then with skip-errors
\* enabled the failure is logged and the batch goes on with the next sheet,
\* and with skip-errors not enabled the batch aborts at once, the error
\* leaving the run.
C5_AsClaimed ==
    [][JobFailed
          => IF args.skip_errors
             THEN GoesOnWithNextSheet /\ Len(log') = Len(log) + 1
             ELSE bstage' = "raised" /\ escaped' = "DeflacueError"]_vars

\* C6 as claimed: a sheet whose source audio file is not on the disk is
\* skipped, with no extraction job, and the batch goes on when skip-errors
\* is enabled; the batch aborts when skip-errors is not enabled.
C6_AsClaimed ==
    [][AtSheetOfMissingSource
          => IF args.skip_errors
             THEN GoesOnWithNextSheet /\ commands' = commands
             ELSE bstage' = "raised"]_vars

\* C6: a sheet that names a source audio file that is not on the disk is
\* skipped whether or not skip-errors is enabled, and whatever the other
\* options: an error is logged, no extraction job is issued for it, nothing
\* is created or removed, and the batch goes on with the next sheet; the
\* batch does not abort.
C6_MissingSourceSkipped ==
    [][AtSheetOfMissingSource
          => /\ GoesOnWithNextSheet
             /\ Len(log') = Len(log) + 1
             /\ log'[Len(log')].level = "error"
             /\ commands' = commands
             /\ removed' = removed
             /\ made' = made
             /\ present' = present]_vars

\* without skip-errors and not in place, the first sheet named a missing
\* source file, and the run went on to extract from the second
C6_Witness ==
    /\ ~args.skip_errors
    /\ ~args.in_place
    /\ sheets[join(SourcePath, F_a_cue)] = "missing"
    /\ Len(log) = 1
    /\ log[1].what = "not found"
    /\ commands # <<>>
    /\ commands[1].cue = join(SourcePath, F_b_cue)

\* C7 as claimed: in a dry run no directory is created, no file is removed
\* and no extraction command is run, whatever the in-place and destination
\* options.
C7_AsClaimed ==
    args.dry_run =>
        /\ made = <<>>
        /\ removed = <<>>
        /\ commands = <<>>
        /\ present = InitialPaths

\* C8 as claimed: in place, the bundle directory is the sheet's own
\* directory; the file that is deleted is the sheet file; it is deleted only
\* after every track of the sheet was extracted successfully, never when a
\* job of the sheet failed.
C8_AsClaimed ==
    /\ (args.in_place /\ bstage = "tracks")
          => bundle_path = path_split(cue_filepath)[1]
    /\ \A i \in 1..Len(removed) :
          /\ args.in_place
          /\ removed[i].file = removed[i].cue
          /\ Len(CommandsOf(removed[i].cue)) = TracksOf(removed[i].cue)
          /\ \A j \in 1..Len(CommandsOf(removed[i].cue)) :
                CommandsOf(removed[i].cue)[j].returncode = 0

\* C8: in place, the bundle directory is the sheet's own directory; the file
\* that is deleted is the source audio file that the sheet's FILE line
\* names, not the sheet file; it is deleted only in place and only after the
\* loop over all tracks of the sheet has ended with no job failed (outside a
\* dry run: every track extracted with status 0), never when a job of the
\* sheet failed.
C8_InPlaceRemovesSource ==
    /\ (args.in_place /\ bstage = "tracks")
          => bundle_path = path_split(cue_filepath)[1]
    /\ \A i \in 1..Len(removed) :
          /\ args.in_place
          /\ removed[i].file = SourceFileOf(removed[i].cue)
          /\ removed[i].file # removed[i].cue
          /\ removed[i].file \notin present
          /\ ~args.dry_run
                => Len(CommandsOf(removed[i].cue)) = TracksOf(removed[i].cue)
          /\ \A j \in 1..Len(CommandsOf(removed[i].cue)) :
                CommandsOf(removed[i].cue)[j].returncode = 0

\* in place, both tracks of the first sheet were extracted and its source
\* file was removed
C8_Witness ==
    /\ args.in_place
    /\ ~args.dry_run
    /\ sheets[join(SourcePath, F_a_cue)] = "two"
    /\ Len(removed) = 1
    /\ removed[1].cue = join(SourcePath, F_a_cue)
    /\ Len(CommandsOf(join(SourcePath, F_a_cue))) = 2

\* C11 as claimed: an error of the parser (the sheet's text does not decode,
\* or a command line is malformed) ends the work on the sheet with no
\* extraction job issued for it, and in every mode it reaches the caller of
\* the batch run: the error leaves the run.
C11_AsClaimed ==
    [][AtSheetOfParserError
          => /\ commands' = commands
             /\ bstage' = "raised"
             /\ escaped' = ParsedSheets[sheets[cue_filepath]].error]_vars

(***************************************************************************)
(* The claims about functions, under SpecFunctions.                        *)
(***************************************************************************)
\* the call of fn has returned
Returned(fn) == called.fn = fn /\ returned # <<>>

\* the positions of the TRACK lines of a sheet, in order
TrackLinePositions(lines) ==
    SelectSeq([j \in 1..Len(lines) |-> j],
              LAMBDA j : IsCommand(lines[j], M_track))

\* the positions of the INDEX lines of the i-th track of a sheet: those from
\* its TRACK line up to the next TRACK line
IndexLinePositions(lines, i) ==
    LET starts == TrackLinePositions(lines)
        last == IF i < Len(starts) THEN starts[i + 1] - 1 ELSE Len(lines)
    IN  {j \in starts[i]..last : IsCommand(lines[j], M_index)}

\* the timestamp of an INDEX line
TimestampOf(raw) == split(Argument(raw))[2]

\* C13: when one or several INDEX lines occur within a track, the track's
\* index timestamp and start offset are those of the last INDEX line of the
\* track (the last wins, nothing is accumulated), and the end offset of the
\* track before it is this last value.
C13_LastIndexWins ==
    (Returned("CueParser") /\ returned[1].error = "")
        => LET lines == called.args[1].lines
               parsed == returned[1].context_tracks
           IN  \A i \in 1..Len(parsed) :
                   IndexLinePositions(lines, i) # {}
                       => LET last == lines[Max(IndexLinePositions(lines, i))]
                          IN  /\ parsed[i][K_INDEX] = PyStr(TimestampOf(last))
                              /\ parsed[i][K_POS_START_SAMPLES]
                                     = PyInt(timestr_to_samples(TimestampOf(last)))
                              /\ i > 1 => parsed[i - 1][K_POS_END_SAMPLES]
                                              = parsed[i][K_POS_START_SAMPLES]

\* the second track of the sheet has two INDEX lines, 02:03:37 and then
\* 03:00:00: it starts, and the first track ends, at 03:00:00
C13_Witness ==
    /\ Returned("CueParser")
    /\ called.args[1].lines
           = <<L_TRACK_01, L_INDEX_0, L_TRACK_02, L_INDEX_1, L_INDEX_2>>
    /\ returned[1].error = ""
    /\ returned[1].context_tracks[2][K_INDEX] = PyStr(TimestampOf(L_INDEX_2))
    /\ returned[1].context_tracks[2][K_POS_START_SAMPLES]
           = PyInt(3 * 60 * DEFAULT_SAMPLE_RATE)
    /\ returned[1].context_tracks[1][K_POS_END_SAMPLES]
           = PyInt(3 * 60 * DEFAULT_SAMPLE_RATE)

\* the number that the two digits at positions i and i + 1 of s write
TwoDigits(s, i) == 10 * DigitValue(s[i]) + DigitValue(s[i + 1])

\* C14: for every timestamp mm:ss:ff with numeric groups the conversion
\* yields exactly (mm*60 + ss)*44100 + ff*588 samples, 588 being 44100/75 in
\* integer arithmetic.
C14_SamplesExact ==
    Returned("_timestr_to_samples")
        => LET timestr == called.args[1]
               mm == TwoDigits(timestr, 1)
               ss == TwoDigits(timestr, 4)
               ff == TwoDigits(timestr, 7)
           IN  returned[1] = PyInt((mm * 60 + ss) * 44100 + ff * 588)

\* "02:03:37" was converted, to ((2*60+3)*44100) + 37*588 samples
C14_Witness ==
    /\ Returned("_timestr_to_samples")
    /\ called.args[1] = <<"0","2",":","0","3",":","3","7">>
    /\ returned[1] = PyInt(((2 * 60 + 3) * 44100) + 37 * 588)

\* the fields of a track and the tags they are written as
FieldTags ==
    {<<K_TRACK_NUM, V_TRACKNUMBER>>, <<K_TITLE, K_TITLE>>,
     <<K_PERFORMER, V_ARTIST>>, <<K_ALBUM, K_ALBUM>>,
     <<K_GENRE, K_GENRE>>, <<K_DATE, K_DATE>>}

\* the field is on the track and is not None
FieldSet(metadata, key) == has_key(metadata, key) /\ metadata[key] # PyNone

\* the text of a field: str(value)
TextOf(value) == IF value.t = "int" THEN str_of_int(value.n) ELSE value.s

\* the tag set has one tag for each of the six fields that is on the track
\* and is not None, with the text of the field, and no other tag
TagsOfSetFields(metadata, tags) ==
    /\ \A i \in 1..Len(tags) :
          \E ft \in FieldTags :
              /\ tags[i][1] = ft[2]
              /\ FieldSet(metadata, ft[1])
              /\ tags[i][2] = TextOf(metadata[ft[1]])
    /\ \A ft \in FieldTags :
          FieldSet(metadata, ft[1])
              => Cardinality({i \in 1..Len(tags) : tags[i][1] = ft[2]}) = 1
    /\ \A ft \in FieldTags :
          ~FieldSet(metadata, ft[1])
              => ~\E i \in 1..Len(tags) : tags[i][1] = ft[2]

\* C17 as claimed: the tag set of a track maps exactly the fields track
\* number, title, performer, album, genre and date to TRACKNUMBER, TITLE,
\* ARTIST, ALBUM, GENRE and DATE; a field that is absent or None is left
\* out; and no tag is ever emitted with an empty value.
C17_AsClaimed ==
    Returned("add_comment")
        => /\ TagsOfSetFields(called.args[1], returned[1])
           /\ \A i \in 1..Len(returned[1]) : returned[1][i][2] # <<>>

\* C17: the tag set of a track maps exactly the fields track number, title,
\* performer, album, genre and date to TRACKNUMBER, TITLE, ARTIST, ALBUM,
\* GENRE and DATE; a field that is absent or None is left out, and every
\* other field is emitted with its text, which is an empty value when the
\* sheet set the field to the empty string.
C17_TagsOfSetFields ==
    Returned("add_comment")
        => /\ TagsOfSetFields(called.args[1], returned[1])
           /\ \A ft \in FieldTags :
                 (FieldSet(called.args[1], ft[1])
                  /\ TextOf(called.args[1][ft[1]]) = <<>>)
                     => \E i \in 1..Len(returned[1]) :
                            returned[1][i] = <<ft[2], <<>> >>

\* the tags of a track that has no title and no date and whose genre the
\* sheet set to "": TRACKNUMBER, ARTIST, ALBUM and an empty GENRE
C17_Witness ==
    /\ Returned("add_comment")
    /\ ~has_key(called.args[1], K_TITLE)
    /\ called.args[1][K_DATE] = PyNone
    /\ called.args[1][K_GENRE] = PyStr(<<>>)
    /\ returned[1] = << <<V_TRACKNUMBER, <<"1">> >>, <<V_ARTIST, <<"Q">> >>,
                        <<K_ALBUM, <<"A">> >>, <<K_GENRE, <<>> >> >>

\* the number of digits of a count below 1000
DigitCount(n) == IF n < 10 THEN 1 ELSE IF n < 100 THEN 2 ELSE 3

\* C18: the output file name of a track is its declared number left-padded
\* with zeros to as many digits as the sheet's count of tracks has, then
\* " - ", then the title without its slashes, then the extension: 12 tracks
\* give the prefixes 01..12 and 150 tracks give prefixes of three digits.
C18_FileName ==
    Returned("track_filename")
        => LET track == called.args[1]
               width == DigitCount(called.args[2])
               name == returned[1]
               prefix == SubSeq(name, 1, width)
           IN  /\ Len(name) > width
               /\ \A i \in 1..width : IsDigit(prefix[i])
               /\ DigitsValue(prefix) = track[K_TRACK_NUM].n
               /\ SubSeq(name, width + 1, Len(name))
                      = <<" ", "-", " ">>
                        \o SelectSeq(track[K_TITLE].s, LAMBDA c : c # "/")
                        \o <<".", "f", "l", "a", "c">>

\* track 7 of a sheet of 12 tracks, titled S/1, was named "07 - S1.flac"
C18_Witness ==
    /\ Returned("track_filename")
    /\ called.args[2] = 12
    /\ called.args[1][K_TRACK_NUM] = PyInt(7)
    /\ called.args[1][K_TITLE] = PyStr(<<"S", "/", "1">>)
    /\ returned[1] = <<"0","7"," ","-"," ","S","1",".","f","l","a","c">>

(***************************************************************************)
(* More claims about the batch, under Spec.                                *)
(***************************************************************************)
\* do has listed and sorted the directories
PathsListed == dir_initial # <<>>

\* a <= b, for strs
StrLessEq(a, b) == a = b \/ str_less(a, b)

\* the sheet a comes no later than the sheet b: its directory is an earlier
\* one, or the same and its file name is no later
SheetNoLater(a, b) ==
    \/ str_less(path_split(a)[1], path_split(b)[1])
    \/ /\ path_split(a)[1] = path_split(b)[1]
       /\ StrLessEq(path_split(a)[2], path_split(b)[2])

\* the file name of the j-th track of a sheet
TrackFileOf(cue, j) ==
    track_filename(ParsedSheets[sheets[cue]].context_tracks[j], TracksOf(cue))

\* C15 as claimed: the directories are worked on in lexicographically sorted
\* order and the sheets of a directory in sorted order of their file names;
\* a listed directory is left out exactly when it has no sheet or is named
\* deflacue, the output subfolder; and the jobs of a sheet are issued in the
\* order its tracks are declared in.
C15_AsClaimed ==
    PathsListed =>
        /\ \A i, j \in 1..Len(paths) : i < j => str_less(paths[i], paths[j])
        /\ \A path \in DOMAIN files_dict :
              \A i, j \in 1..Len(files_dict[path]) :
                  i < j => str_less(files_dict[path][i], files_dict[path][j])
        /\ \A dir \in listed_dirs(args.recursive) :
              (\E i \in 1..Len(paths) : paths[i] = dir)
                  <=> /\ path_split(dir)[2] # DEFLACUE_SUBFOLDER_NAME
                      /\ \E f \in dir_files(dir) : splitext_ext(f) = EXT_CUE
        /\ \A i, j \in 1..Len(commands) :
              i < j => SheetNoLater(commands[i].cue, commands[j].cue)
        /\ \A i \in 1..Len(commands) :
              \A j \in 1..Len(CommandsOf(commands[i].cue)) :
                  path_split(CommandsOf(commands[i].cue)[j].command.target)[2]
                      = TrackFileOf(commands[i].cue, j)

\* the start offsets that a parsed sheet gives its tracks, in the order of
\* their declaration
StartOffsets(parsed) ==
    [j \in 1..Len(parsed.context_tracks) |->
        IF has_key(parsed.context_tracks[j], K_POS_START_SAMPLES)
        THEN parsed.context_tracks[j][K_POS_START_SAMPLES].n
        ELSE 0]

\* the start and the length of the job of every track of a sheet, from the
\* start offsets: the length is the next start less this one, and the last
\* job has none
JobsFromOffsets ==
    [name \in Sheets |->
        LET starts == StartOffsets(ParsedSheets[name])
        IN  [j \in 1..Len(starts) |->
                [start_pos |-> str_of_int(starts[j]),
                 length |-> IF j < Len(starts)
                            THEN str_of_int(starts[j + 1] - starts[j]) \o <<"s">>
                            ELSE <<>>]]]

\* the i-th command run is the JobNumber(i)-th job of its sheet
JobNumber(i) == Cardinality({k \in 1..i : commands[k].cue = commands[i].cue})

\* C16: the extraction job of every track starts at the track's start offset
\* and its length is the end offset, which is the start offset of the track
\* declared next, minus the start offset; the job of the last track, which
\* has no end offset, is given no length and runs to the end of the file.
\* Nothing is put right: where the offsets decrease from a track to the next
\* the length is negative.
C16_JobFromOffsets ==
    \A i \in 1..Len(commands) :
        LET job == JobsFromOffsets[sheets[commands[i].cue]][JobNumber(i)]
        IN  /\ commands[i].command.start_pos = job.start_pos
            /\ commands[i].command.length = job.length

\* in one run, the sheet of two tracks at 00:00:00 and 03:00:00 gave a first
\* job of 3*60*44100 samples and a second job that starts there and has no
\* length, and the sheet of decreasing offsets gave a first job of negative
\* length
C16_Witness ==
    /\ sheets[join(SourcePath, F_a_cue)] = "two"
    /\ sheets[join(SourcePath, F_b_cue)] = "decreasing"
    /\ Len(commands) = 4
    /\ commands[1].command.start_pos = <<"0">>
    /\ commands[1].command.length = str_of_int(3 * 60 * 44100) \o <<"s">>
    /\ commands[2].command.start_pos = str_of_int(3 * 60 * 44100)
    /\ commands[2].command.length = <<>>
    /\ commands[3].command.start_pos = str_of_int(((2 * 60 + 3) * 44100) + 37 * 588)
    /\ commands[3].command.length
           = <<"-">> \o str_of_int(((2 * 60 + 3) * 44100) + 37 * 588) \o <<"s">>
    /\ commands[4].command.start_pos = <<"0">>

\* _process_cue is in its loop over the tracks of a sheet, not in place
ExtractingNotInPlace == ~args.in_place /\ bstage = "tracks"

\* <performer>/<title> of the sheet at hand, under root: the title is
\* "<date> - <album>" when the global record has a date, else <album>
BundleUnder(root) ==
    root \o <<"/">> \o cd_info[K_PERFORMER].s \o <<"/">>
    \o (IF cd_info[K_DATE] # PyNone
        THEN cd_info[K_DATE].s \o <<" ", "-", " ">> \o cd_info[K_ALBUM].s
        ELSE cd_info[K_ALBUM].s)

\* C19 as claimed: not in place, the bundle directory of a sheet is
\* <destination-root>/<performer>/<title>, the destination root being the
\* destination path that was given, or the deflacue subfolder of the sheet's
\* directory when none was; no other path component stands between the
\* destination root and the performer.
C19_AsClaimed ==
    ExtractingNotInPlace
        => bundle_path =
               BundleUnder(IF args.dest_path = PyNone
                           THEN paths[path_idx] \o <<"/">> \o DEFLACUE_SUBFOLDER_NAME
                           ELSE args.dest_path.s)

\* C19: not in place, the bundle directory of a sheet is
\* <target>/<performer>/<title>, where <title> is "<date> - <album>" when the
\* global record has a date and <album> otherwise, and <target> is the
\* deflacue subfolder of the sheet's directory when no destination path was
\* given and, when one was, the subdirectory of the destination path that is
\* named after the sheet's directory.
C19_BundleUnderTargetPath ==
    ExtractingNotInPlace
        => bundle_path =
               BundleUnder(IF args.dest_path = PyNone
                           THEN paths[path_idx] \o <<"/">> \o DEFLACUE_SUBFOLDER_NAME
                           ELSE args.dest_path.s \o <<"/">>
                                \o path_split(paths[path_idx])[2])

\* with the destination /o, the tracks of /m/a.cue, which has a date and no
\* performer and album of its own, go to /o/m/Unknown/1999 - Unknown
C19_Witness ==
    /\ ExtractingNotInPlace
    /\ args.dest_path = PyStr(DestRoot)
    /\ cue_filepath = join(SourcePath, F_a_cue)
    /\ cd_info[K_DATE] = PyStr(<<"1","9","9","9">>)
    /\ bundle_path = <<"/","o","/","m","/","U","n","k","n","o","w","n","/",
                       "1","9","9","9"," ","-"," ","U","n","k","n","o","w","n">>

====
